---- MODULE Spec2Model ----
(***************************************************************************)
(* A model of yaml-crypt's two core pieces:                                *)
(*   - package cache: the two-generation ("young"/"old") bitcask cache     *)
(*     of (plaintext, ciphertext) pairs, with Setup, Add, Encrypt,         *)
(*     Decrypt and Close;                                                  *)
(*   - package actions: the worker-pool pipeline behind actions.Encrypt    *)
(*     and actions.Decrypt.                                                *)
(* Spec is the cache's state machine, PipeSpec the pipeline's.             *)
(***************************************************************************)
EXTENDS Integers, Sequences, FiniteSets, TLC

VARIABLES
    fs,        \* the cache directory: path -> [exists, recs], recs a map key -> value
    phase,     \* "new" | "open" | "failed" | "closed": life cycle of the Cache value
    handles,   \* [young, old]: "nil" | "open" | "closed", the two bitcask handles
    ret,       \* the last cache call and what it returned
    closeLog,  \* the store closes attempted by the last Close, in order
    closeInfo, \* what the last Close saw (stores before it, size, failures),
               \* kept until the next Setup
    added      \* history: the records Add has written, as API-level pairs

cacheVars == <<fs, phase, handles, ret, closeLog, closeInfo, added>>

VARIABLES
    jobList,    \* the batch: path -> [existing, equal, fails]
    threads,    \* the number of workers asked for
    opc,        \* the orchestrator: "idle" | "spawn" | "consume" | "done"
    started,    \* workers started so far
    dpc,        \* the dispatcher goroutine: "none" | "send" | "exit"
    remaining,  \* the paths the dispatcher's range loop has not sent yet
    jobsClosed, \* close(jobs) has happened
    wpc,        \* each worker: "none" | "recv" | "work" | "send" | "exit"
    wjob,       \* the path of the job a worker holds (0: none)
    werr,       \* each worker's err variable (0: nil, k: the error of path k)
    nread,      \* the orchestrator's loop counter: result signals read
    retErr,     \* what the orchestrator returned (NotReturned before it does)
    transforms, \* path -> number of calls of the provider for it
    commits,    \* path -> number of calls of ReplaceNode for it
    sent,       \* path -> the result signals sent for it, in order
    saves       \* number of calls of SaveFile

pipeVars == <<jobList, threads, opc, started, dpc, remaining, jobsClosed, wpc, wjob,
              werr, nread, retErr, transforms, commits, sent, saves>>

vars == <<cacheVars, pipeVars>>

----------------------------------------------------------------------------
(* Bounds of the model *)

\* payloads are the one-byte strings <<1>> .. <<MaxByte>>
MaxByte == 2
\* bytes the store's Size statistic counts per live record after a merge
RecordBytes == 40000
\* number of distinct records in the history of writes
MaxWritten == 4
\* size of the batch
MaxJobs == 3
\* size of the worker pool
MaxWorkers == 2

----------------------------------------------------------------------------
(* package cache: constants and pure functions *)

hashLength == 16
plaintextKeyPrefix == 112
ciphertextKeyPrefix == 99
youngPath == "young"
oldPath == "old"

RECURSIVE Xor(_, _)
\* Go's ^ on non-negative integers
Xor(a, b) ==
    IF a = 0 /\ b = 0 THEN 0
    ELSE (((a % 2) + (b % 2)) % 2) + (2 * Xor(a \div 2, b \div 2))

\* var youngCacheSize int64 = (1024 ^ 2) * 100
youngCacheSize == Xor(1024, 2) * 100

Payloads == { <<b>> : b \in 1..MaxByte }

\* []byte{} and ""
Empty == << >>

\* sha256.Sum256(data)[:hashLength]: the digest is kept as a token of
\* hashLength bytes that stands for the first bytes of data's SHA-256; distinct
\* payloads of the model have distinct digests
hash(data) == [bytes |-> hashLength, sum256 |-> data]

\* a slip: the ciphertext key carries the plaintext tag
ciphertextToKeySameTag(data) == <<plaintextKeyPrefix>> \o <<hash(data)>>

ciphertextToKey(data) == <<ciphertextKeyPrefix>> \o <<hash(data)>>

plaintextToKey(data) == <<plaintextKeyPrefix>> \o <<hash(data)>>

----------------------------------------------------------------------------
(* the bitcask store and the file system, at the boundary the cache uses *)

NoRecs == << >>

Has(recs, key) == key \in DOMAIN recs

\* a slip: a Put on a key the store holds appends to the value it has
PutAppends(recs, key, value) ==
    [k \in (DOMAIN recs) \cup {key} |->
        IF k # key THEN recs[k]
        ELSE IF k \in DOMAIN recs THEN recs[k] \o value ELSE value]

Put(recs, key, value) ==
    [k \in (DOMAIN recs) \cup {key} |-> IF k = key THEN value ELSE recs[k]]

\* Stats().Size of a merged store
statsSize(recs) == RecordBytes * Cardinality(DOMAIN recs)

\* os.RemoveAll(path): a missing path is not an error
RemoveAll(f, path, fail) ==
    IF fail THEN [fs |-> f, err |-> "ErrRemove"]
    ELSE [fs |-> [f EXCEPT ![path] = [exists |-> FALSE, recs |-> NoRecs]],
          err |-> "nil"]

\* os.Rename(from, to) on directories
Rename(f, from, to) ==
    IF ~f[from].exists THEN [fs |-> f, err |-> "ErrNotExist"]
    ELSE IF f[to].exists /\ f[to].recs # NoRecs THEN [fs |-> f, err |-> "ErrExist"]
    ELSE [fs |-> [f EXCEPT ![to] = f[from],
                           ![from] = [exists |-> FALSE, recs |-> NoRecs]],
          err |-> "nil"]

\* bitcask.Open(path): creates the directory when it is missing
Open(f, path) == [f EXCEPT ![path].exists = TRUE]

young == fs[youngPath].recs
old == fs[oldPath].recs

----------------------------------------------------------------------------
(* Cache.Add *)

NoClose ==
    [seen |-> FALSE, young |-> NoRecs, old |-> NoRecs, size |-> 0, faults |-> {},
     rotated |-> FALSE, rotErr |-> "nil"]

\* a slip: the error of the second Put is overwritten by Sync's
AddResultIgnoresPut2(recs, plaintext, ciphertext, fault) ==
    IF fault = "put1"
    THEN [recs |-> recs, err |-> "ErrPut", puts |-> 0, synced |-> FALSE]
    ELSE LET r1 == Put(recs, plaintextToKey(plaintext), ciphertext) IN
         IF fault = "put2"
         THEN [recs |-> r1, err |-> "nil", puts |-> 1, synced |-> TRUE]
         ELSE LET r2 == Put(r1, ciphertextToKey(ciphertext), plaintext) IN
              IF fault = "sync"
              THEN [recs |-> r2, err |-> "ErrSync", puts |-> 2, synced |-> FALSE]
              ELSE [recs |-> r2, err |-> "nil", puts |-> 2, synced |-> TRUE]

\* the records of young after Add(plaintext, ciphertext), the error it
\* returns, how many of the two Puts happened and whether the Sync succeeded
AddResult(recs, plaintext, ciphertext, fault) ==
    IF fault = "put1"
    THEN [recs |-> recs, err |-> "ErrPut", puts |-> 0, synced |-> FALSE]
    ELSE LET r1 == Put(recs, plaintextToKey(plaintext), ciphertext) IN
         IF fault = "put2"
         THEN [recs |-> r1, err |-> "ErrPut", puts |-> 1, synced |-> FALSE]
         ELSE LET r2 == Put(r1, ciphertextToKey(ciphertext), plaintext) IN
              IF fault = "sync"
              THEN [recs |-> r2, err |-> "ErrSync", puts |-> 2, synced |-> FALSE]
              ELSE [recs |-> r2, err |-> "nil", puts |-> 2, synced |-> TRUE]

\* the history of written records: "p" is the plaintext-keyed record of the
\* pair, "c" the ciphertext-keyed one
Written(hist, plaintext, ciphertext, puts) ==
    hist \cup (IF puts >= 1 THEN {<<"p", plaintext, ciphertext>>} ELSE {})
         \cup (IF puts >= 2 THEN {<<"c", plaintext, ciphertext>>} ELSE {})

AddFaults == {"none", "put1", "put2", "sync"}

\* this call of Add follows a successful Add of the same pair
Repeats(last, plaintext, ciphertext) ==
    /\ last.op = "Add"
    /\ last.err = "nil"
    /\ last.p = plaintext
    /\ last.c = ciphertext

\* a slip: the second Put goes to c.old
AddSecondPutOld(plaintext, ciphertext, fault) ==
    /\ phase = "open"
    /\ LET r == AddResult(young, plaintext, ciphertext, fault) IN
        /\ Cardinality(Written(added, plaintext, ciphertext, r.puts)) <= MaxWritten
        /\ fs' = [fs EXCEPT
                    ![youngPath].recs =
                        IF r.puts >= 1
                        THEN Put(young, plaintextToKey(plaintext), ciphertext)
                        ELSE young,
                    ![oldPath].recs =
                        IF r.puts >= 2
                        THEN Put(old, ciphertextToKey(ciphertext), plaintext)
                        ELSE old]
        /\ added' = Written(added, plaintext, ciphertext, r.puts)
        /\ ret' = [op |-> "Add", p |-> plaintext, c |-> ciphertext,
                   value |-> Empty, found |-> FALSE, err |-> r.err,
                   fault |-> fault, tier |-> "none", puts |-> r.puts,
                   synced |-> r.synced,
                   again |-> Repeats(ret, plaintext, ciphertext)]
    /\ UNCHANGED <<phase, handles, closeLog, closeInfo>>
    /\ UNCHANGED pipeVars

Add(plaintext, ciphertext, fault) ==
    /\ phase = "open"
    /\ LET r == AddResult(young, plaintext, ciphertext, fault) IN
        /\ Cardinality(Written(added, plaintext, ciphertext, r.puts)) <= MaxWritten
        /\ fs' = [fs EXCEPT ![youngPath].recs = r.recs]
        /\ added' = Written(added, plaintext, ciphertext, r.puts)
        /\ ret' = [op |-> "Add", p |-> plaintext, c |-> ciphertext,
                   value |-> Empty, found |-> FALSE, err |-> r.err,
                   fault |-> fault, tier |-> "none", puts |-> r.puts,
                   synced |-> r.synced,
                   again |-> Repeats(ret, plaintext, ciphertext)]
    /\ UNCHANGED <<phase, handles, closeLog, closeInfo>>
    /\ UNCHANGED pipeVars

----------------------------------------------------------------------------
(* Cache.Decrypt and Cache.Encrypt *)

\* the consulting logic the two lookups share: young first, then old; promote
\* says that the caller copies the hit into young with Add
Lookup(yrecs, orecs, key, fault) ==
    IF Has(yrecs, key)
    THEN IF fault = "get"
         THEN [value |-> Empty, found |-> TRUE, err |-> "ErrGet", tier |-> "young",
               promote |-> FALSE]
         ELSE [value |-> yrecs[key], found |-> TRUE, err |-> "nil", tier |-> "young",
               promote |-> FALSE]
    ELSE IF Has(orecs, key)
    THEN IF fault = "get"
         THEN [value |-> Empty, found |-> FALSE, err |-> "ErrGet", tier |-> "old",
               promote |-> FALSE]
         ELSE [value |-> orecs[key], found |-> TRUE, err |-> "nil", tier |-> "old",
               promote |-> TRUE]
    ELSE [value |-> Empty, found |-> FALSE, err |-> "nil", tier |-> "none",
          promote |-> FALSE]

\* the store failures that can strike a lookup of key
LookupFaults(yrecs, orecs, key) ==
    IF Has(yrecs, key) THEN {"none", "get"}
    ELSE IF Has(orecs, key) THEN {"none", "get", "put1", "put2", "sync"}
    ELSE {"none"}

\* Cache.Decrypt(ciphertext): result and the young store afterwards
DecryptResult(yrecs, orecs, ciphertext, fault) ==
    LET l == Lookup(yrecs, orecs, ciphertextToKey(ciphertext), fault) IN
    IF l.promote
    THEN LET a == AddResult(yrecs, l.value, ciphertext, fault) IN
         [value |-> l.value, found |-> TRUE, err |-> a.err, tier |-> "old",
          recs |-> a.recs, puts |-> a.puts, synced |-> a.synced,
          p |-> l.value, c |-> ciphertext]
    ELSE [value |-> l.value, found |-> l.found, err |-> l.err, tier |-> l.tier,
          recs |-> yrecs, puts |-> 0, synced |-> FALSE,
          p |-> Empty, c |-> ciphertext]

\* Cache.Encrypt(plaintext): the function returns a miss in its first
\* statement; the consulting logic after it is never reached
EncryptResult(yrecs, orecs, plaintext, fault) ==
    LET returnsFirst == TRUE
        l == Lookup(yrecs, orecs, plaintextToKey(plaintext), fault) IN
    IF returnsFirst
    THEN [value |-> Empty, found |-> FALSE, err |-> "nil", tier |-> "none",
          recs |-> yrecs, puts |-> 0, synced |-> FALSE,
          p |-> plaintext, c |-> Empty]
    ELSE IF l.promote
    THEN LET a == AddResult(yrecs, plaintext, l.value, fault) IN
         [value |-> l.value, found |-> TRUE, err |-> a.err, tier |-> "old",
          recs |-> a.recs, puts |-> a.puts, synced |-> a.synced,
          p |-> plaintext, c |-> l.value]
    ELSE [value |-> l.value, found |-> l.found, err |-> l.err, tier |-> l.tier,
          recs |-> yrecs, puts |-> 0, synced |-> FALSE,
          p |-> plaintext, c |-> Empty]

\* Cache.Encrypt reaches no store call, so no store failure can strike it
EncryptFaults(yrecs, orecs, key) == {"none"}

Decrypt(ciphertext, fault) ==
    /\ phase = "open"
    /\ fault \in LookupFaults(young, old, ciphertextToKey(ciphertext))
    /\ LET r == DecryptResult(young, old, ciphertext, fault) IN
        /\ fs' = [fs EXCEPT ![youngPath].recs = r.recs]
        /\ added' = Written(added, r.p, r.c, r.puts)
        /\ ret' = [op |-> "Decrypt", p |-> Empty, c |-> ciphertext,
                   value |-> r.value, found |-> r.found, err |-> r.err,
                   fault |-> fault, tier |-> r.tier, puts |-> r.puts,
                   synced |-> r.synced, again |-> FALSE]
    /\ UNCHANGED <<phase, handles, closeLog, closeInfo>>
    /\ UNCHANGED pipeVars

Encrypt(plaintext, fault) ==
    /\ phase = "open"
    /\ fault \in EncryptFaults(young, old, plaintextToKey(plaintext))
    /\ LET r == EncryptResult(young, old, plaintext, fault) IN
        /\ fs' = [fs EXCEPT ![youngPath].recs = r.recs]
        /\ added' = Written(added, r.p, r.c, r.puts)
        /\ ret' = [op |-> "Encrypt", p |-> plaintext, c |-> Empty,
                   value |-> r.value, found |-> r.found, err |-> r.err,
                   fault |-> fault, tier |-> r.tier, puts |-> r.puts,
                   synced |-> r.synced, again |-> FALSE]
    /\ UNCHANGED <<phase, handles, closeLog, closeInfo>>
    /\ UNCHANGED pipeVars

----------------------------------------------------------------------------
(* Setup *)

\* Setup(config): open young, then old; an error of the first Open returns
\* before the second
SetupResult(f, fault) ==
    IF fault = "young"
    THEN [fs |-> f, err |-> "ErrOpen", young |-> "nil", old |-> "nil"]
    ELSE LET f1 == Open(f, youngPath) IN
         IF fault = "old"
         THEN [fs |-> f1, err |-> "ErrOpen", young |-> "open", old |-> "nil"]
         ELSE [fs |-> Open(f1, oldPath), err |-> "nil", young |-> "open", old |-> "open"]

SetupFaults == {"none", "young", "old"}

Setup(fault) ==
    /\ phase \in {"new", "failed", "closed"}
    /\ LET r == SetupResult(fs, fault) IN
        /\ fs' = r.fs
        /\ handles' = [young |-> r.young, old |-> r.old]
        /\ phase' = IF r.err = "nil" THEN "open" ELSE "failed"
        /\ ret' = [op |-> "Setup", p |-> Empty, c |-> Empty, value |-> Empty,
                   found |-> FALSE, err |-> r.err, fault |-> fault, tier |-> "none",
                   puts |-> 0, synced |-> FALSE, again |-> FALSE]
    /\ closeLog' = << >>
    /\ closeInfo' = NoClose
    /\ UNCHANGED added
    /\ UNCHANGED pipeVars

----------------------------------------------------------------------------
(* Cache.Close *)

\* a slip: the size check is left out
TooBigAlways(size) == TRUE

\* stats.Size > youngCacheSize
TooBig(size) == size > youngCacheSize

\* the closes Close attempts, in order: old is closed only after young closed
CloseAttempts(closeYoungFails) ==
    IF closeYoungFails THEN <<"young">> ELSE <<"young", "old">>

\* the rotation of Close: remove old's directory, then rename
Rotate(f, removeFails) ==
    LET rm == RemoveAll(f, oldPath, removeFails) IN
    IF rm.err # "nil" THEN rm ELSE Rename(rm.fs, oldPath, youngPath)

\* a slip: the merge and stats errors are reported before the close errors
CloseResultMergeFirst(f, faults, size) ==
    IF "merge" \in faults THEN [fs |-> f, err |-> "ErrMerge", rotated |-> FALSE]
    ELSE IF "stats" \in faults THEN [fs |-> f, err |-> "ErrStats", rotated |-> FALSE]
    ELSE IF "closeYoung" \in faults THEN [fs |-> f, err |-> "ErrCloseYoung", rotated |-> FALSE]
    ELSE IF "closeOld" \in faults THEN [fs |-> f, err |-> "ErrCloseOld", rotated |-> FALSE]
    ELSE IF TooBig(size)
    THEN LET r == Rotate(f, "remove" \in faults) IN
         [fs |-> r.fs, err |-> r.err, rotated |-> TRUE]
    ELSE [fs |-> f, err |-> "nil", rotated |-> FALSE]

\* Close's return value and the directory afterwards; faults is the set of
\* store calls that fail, among "merge", "stats", "closeYoung", "closeOld",
\* "remove"
CloseResult(f, faults, size) ==
    IF "closeYoung" \in faults THEN [fs |-> f, err |-> "ErrCloseYoung", rotated |-> FALSE]
    ELSE IF "closeOld" \in faults THEN [fs |-> f, err |-> "ErrCloseOld", rotated |-> FALSE]
    ELSE IF "merge" \in faults THEN [fs |-> f, err |-> "ErrMerge", rotated |-> FALSE]
    ELSE IF "stats" \in faults THEN [fs |-> f, err |-> "ErrStats", rotated |-> FALSE]
    ELSE IF TooBig(size)
    THEN LET r == Rotate(f, "remove" \in faults) IN
         [fs |-> r.fs, err |-> r.err, rotated |-> TRUE]
    ELSE [fs |-> f, err |-> "nil", rotated |-> FALSE]

\* the failures that can strike this Close: a close of old is attempted only
\* when young closed, a removal only when the rotation is reached
CloseFaults(size) ==
    { F \in SUBSET {"merge", "stats", "closeYoung", "closeOld", "remove"} :
        /\ "closeOld" \in F => "closeYoung" \notin F
        /\ "remove" \in F => /\ F = {"remove"}
                             /\ TooBig(size) }

\* Merge compacts young's files and leaves its live records as they are;
\* Stats is read before the closes
Close(faults) ==
    /\ phase = "open"
    /\ LET size == statsSize(young)
           r == CloseResult(fs, faults, size) IN
        /\ faults \in CloseFaults(size)
        /\ fs' = r.fs
        /\ closeLog' = CloseAttempts("closeYoung" \in faults)
        /\ handles' = [young |-> IF "closeYoung" \in faults THEN "open" ELSE "closed",
                       old |-> IF {"closeYoung", "closeOld"} \cap faults # {}
                               THEN "open" ELSE "closed"]
        /\ closeInfo' = [seen |-> TRUE, young |-> young, old |-> old, size |-> size,
                         faults |-> faults, rotated |-> r.rotated,
                         rotErr |-> IF r.rotated
                                    THEN Rotate(fs, "remove" \in faults).err
                                    ELSE "nil"]
        /\ ret' = [op |-> "Close", p |-> Empty, c |-> Empty, value |-> Empty,
                   found |-> FALSE, err |-> r.err, fault |-> "none", tier |-> "none",
                   puts |-> 0, synced |-> FALSE, again |-> FALSE]
    /\ phase' = "closed"
    /\ UNCHANGED added
    /\ UNCHANGED pipeVars

----------------------------------------------------------------------------
(* The cache's state machine *)

\* the old generations a run can start with: none, or the directory that a
\* young generation holding one pair was moved to; up to a renaming of the
\* payloads that pair is (<<1>>, <<1>>) or (<<1>>, <<2>>)
OldGenerations ==
    {[recs |-> NoRecs, hist |-> {}]} \cup
    { [recs |-> AddResult(NoRecs, <<1>>, c, "none").recs,
       hist |-> Written({}, <<1>>, c, 2)] : c \in Payloads \cap {<<1>>, <<2>>} }

CacheInit ==
    /\ \E g \in OldGenerations :
        /\ fs = [n \in {youngPath, oldPath} |->
                    IF n = oldPath /\ g.recs # NoRecs
                    THEN [exists |-> TRUE, recs |-> g.recs]
                    ELSE [exists |-> FALSE, recs |-> NoRecs]]
        /\ added = g.hist
    /\ phase = "new"
    /\ handles = [young |-> "nil", old |-> "nil"]
    /\ ret = [op |-> "none", p |-> Empty, c |-> Empty, value |-> Empty,
              found |-> FALSE, err |-> "nil", fault |-> "none", tier |-> "none",
              puts |-> 0, synced |-> FALSE, again |-> FALSE]
    /\ closeLog = << >>
    /\ closeInfo = NoClose

CacheNext ==
    \/ \E fault \in SetupFaults : Setup(fault)
    \/ \E p \in Payloads, c \in Payloads, fault \in AddFaults : Add(p, c, fault)
    \/ \E p \in Payloads, fault \in AddFaults \cup {"get"} : Encrypt(p, fault)
    \/ \E c \in Payloads, fault \in AddFaults \cup {"get"} : Decrypt(c, fault)
    \/ \E faults \in SUBSET {"merge", "stats", "closeYoung", "closeOld", "remove"} :
          Close(faults)

----------------------------------------------------------------------------
(* package actions: the pipeline of Encrypt and Decrypt *)

NotReturned == -1
ErrSave == -2

\* a job of the batch: existing says that the output side of the job is
\* present (job.d != nil in Decrypt, job.e != nil in Encrypt), equal is the
\* answer of Compare for it, fails says that the provider returns an error
JobKinds ==
    { k \in [existing : BOOLEAN, equal : BOOLEAN, fails : BOOLEAN] :
        /\ k.equal => k.existing
        /\ k.fails => ~(k.existing /\ k.equal) }

Paths == DOMAIN jobList
Workers == 1..threads

\* a slip: the worker calls the provider without looking at Compare
WorkerBodyNoReuse(path, job, err) ==
    LET err1 == IF job.fails THEN path ELSE 0 IN
    [err |-> err1, transform |-> TRUE, commit |-> err1 = 0]

\* the body of the worker's loop between the receive and the send: err is the
\* worker's err variable, declared outside the loop
\* the error of the provider for the job of path k is the value k
WorkerBody(path, job, err) ==
    LET reuse == job.existing /\ job.equal
        err1 == IF reuse THEN err ELSE IF job.fails THEN path ELSE 0 IN
    [err |-> err1, transform |-> ~reuse, commit |-> err1 = 0]

\* a slip: the orchestrator counts the signals without looking at them
ConsumeBlind(count, signal) ==
    [nread |-> count + 1, ret |-> NotReturned, opc |-> "consume"]

\* the orchestrator's loop step on a result signal: return on an error
Consume(count, signal) ==
    IF signal # 0 THEN [nread |-> count + 1, ret |-> signal, opc |-> "done"]
    ELSE [nread |-> count + 1, ret |-> NotReturned, opc |-> "consume"]

\* for i := uint(0); i < threads; i++ { go worker(...) }
SpawnWorker ==
    /\ opc = "spawn"
    /\ started < threads
    /\ started' = started + 1
    /\ wpc' = [wpc EXCEPT ![started + 1] = "recv"]
    /\ UNCHANGED <<jobList, threads, opc, dpc, remaining, jobsClosed, wjob, werr,
                   nread, retErr, transforms, commits, sent, saves>>
    /\ UNCHANGED cacheVars

\* a slip: the dispatcher is started inside the spawn loop
StartDispatcherEarly ==
    /\ opc = "spawn"
    /\ opc' = "consume"
    /\ dpc' = "send"
    /\ UNCHANGED <<jobList, threads, started, remaining, jobsClosed, wpc, wjob, werr,
                   nread, retErr, transforms, commits, sent, saves>>
    /\ UNCHANGED cacheVars

\* go func() { ... }(): the dispatcher is started after the last worker
StartDispatcher ==
    /\ opc = "spawn"
    /\ started = threads
    /\ opc' = "consume"
    /\ dpc' = "send"
    /\ UNCHANGED <<jobList, threads, started, remaining, jobsClosed, wpc, wjob, werr,
                   nread, retErr, transforms, commits, sent, saves>>
    /\ UNCHANGED cacheVars

\* a slip: the dispatcher does not move on to the next path after a send
DispatchKeeps(path, w) ==
    /\ dpc = "send"
    /\ path \in remaining
    /\ w \in 1..started
    /\ wpc[w] = "recv"
    /\ wpc' = [wpc EXCEPT ![w] = "work"]
    /\ wjob' = [wjob EXCEPT ![w] = path]
    /\ UNCHANGED <<jobList, threads, opc, started, dpc, remaining, jobsClosed, werr,
                   nread, retErr, transforms, commits, sent, saves>>
    /\ UNCHANGED cacheVars

\* jobs <- job{...} meets a worker's receive: the channel is unbuffered, and
\* the range over the map takes the paths in any order
Dispatch(path, w) ==
    /\ dpc = "send"
    /\ path \in remaining
    /\ w \in 1..started
    /\ wpc[w] = "recv"
    /\ remaining' = remaining \ {path}
    /\ wpc' = [wpc EXCEPT ![w] = "work"]
    /\ wjob' = [wjob EXCEPT ![w] = path]
    /\ UNCHANGED <<jobList, threads, opc, started, dpc, jobsClosed, werr,
                   nread, retErr, transforms, commits, sent, saves>>
    /\ UNCHANGED cacheVars

\* a slip: the dispatcher returns without close(jobs)
CloseJobsNoClose ==
    /\ dpc = "send"
    /\ remaining = {}
    /\ dpc' = "exit"
    /\ UNCHANGED <<jobList, threads, opc, started, remaining, jobsClosed, wpc, wjob,
                   werr, nread, retErr, transforms, commits, sent, saves>>
    /\ UNCHANGED cacheVars

\* close(jobs), after the range loop
CloseJobs ==
    /\ dpc = "send"
    /\ remaining = {}
    /\ jobsClosed' = TRUE
    /\ dpc' = "exit"
    /\ UNCHANGED <<jobList, threads, opc, started, remaining, wpc, wjob, werr,
                   nread, retErr, transforms, commits, sent, saves>>
    /\ UNCHANGED cacheVars

\* the worker resolves the job it holds and commits it
Resolve(w) ==
    /\ w \in 1..started
    /\ wpc[w] = "work"
    /\ LET path == wjob[w]
           b == WorkerBody(path, jobList[path], werr[w]) IN
        /\ werr' = [werr EXCEPT ![w] = b.err]
        /\ transforms' = [transforms EXCEPT ![path] = @ + (IF b.transform THEN 1 ELSE 0)]
        /\ commits' = [commits EXCEPT ![path] = @ + (IF b.commit THEN 1 ELSE 0)]
    /\ wpc' = [wpc EXCEPT ![w] = "send"]
    /\ UNCHANGED <<jobList, threads, opc, started, dpc, remaining, jobsClosed, wjob,
                   nread, retErr, sent, saves>>
    /\ UNCHANGED cacheVars

\* errs <- err meets the orchestrator's err := <-errors
Signal(w) ==
    /\ w \in 1..started
    /\ wpc[w] = "send"
    /\ opc = "consume"
    /\ nread < Cardinality(Paths)
    /\ LET c == Consume(nread, werr[w]) IN
        /\ nread' = c.nread
        /\ retErr' = c.ret
        /\ opc' = c.opc
    /\ sent' = [sent EXCEPT ![wjob[w]] = Append(@, werr[w])]
    /\ wpc' = [wpc EXCEPT ![w] = "recv"]
    /\ wjob' = [wjob EXCEPT ![w] = 0]
    /\ UNCHANGED <<jobList, threads, started, dpc, remaining, jobsClosed, werr,
                   transforms, commits, saves>>
    /\ UNCHANGED cacheVars

\* the worker's range over jobs ends when the channel is closed
WorkerExit(w) ==
    /\ w \in 1..started
    /\ wpc[w] = "recv"
    /\ jobsClosed
    /\ wpc' = [wpc EXCEPT ![w] = "exit"]
    /\ UNCHANGED <<jobList, threads, opc, started, dpc, remaining, jobsClosed, wjob,
                   werr, nread, retErr, transforms, commits, sent, saves>>
    /\ UNCHANGED cacheVars

\* a slip: the output is written without waiting for the signals
SaveEarly(fails) ==
    /\ opc = "consume"
    /\ saves' = saves + 1
    /\ retErr' = IF fails THEN ErrSave ELSE 0
    /\ opc' = "done"
    /\ UNCHANGED <<jobList, threads, started, dpc, remaining, jobsClosed, wpc, wjob,
                   werr, nread, transforms, commits, sent>>
    /\ UNCHANGED cacheVars

\* after the consume loop: return yaml.SaveFile(outPath, node)
Save(fails) ==
    /\ opc = "consume"
    /\ nread = Cardinality(Paths)
    /\ saves' = saves + 1
    /\ retErr' = IF fails THEN ErrSave ELSE 0
    /\ opc' = "done"
    /\ UNCHANGED <<jobList, threads, started, dpc, remaining, jobsClosed, wpc, wjob,
                   werr, nread, transforms, commits, sent>>
    /\ UNCHANGED cacheVars

PipeInit ==
    /\ \E n \in 0..MaxJobs : jobList \in [1..n -> JobKinds]
    /\ threads \in 0..MaxWorkers
    /\ opc = "spawn"
    /\ started = 0
    /\ dpc = "none"
    /\ remaining = DOMAIN jobList
    /\ jobsClosed = FALSE
    /\ wpc = [w \in 1..threads |-> "none"]
    /\ wjob = [w \in 1..threads |-> 0]
    /\ werr = [w \in 1..threads |-> 0]
    /\ nread = 0
    /\ retErr = NotReturned
    /\ transforms = [p \in DOMAIN jobList |-> 0]
    /\ commits = [p \in DOMAIN jobList |-> 0]
    /\ sent = [p \in DOMAIN jobList |-> << >>]
    /\ saves = 0

\* no pipeline is running
PipeIdle ==
    /\ jobList = << >>
    /\ threads = 0
    /\ opc = "idle"
    /\ started = 0
    /\ dpc = "none"
    /\ remaining = {}
    /\ jobsClosed = FALSE
    /\ wpc = << >>
    /\ wjob = << >>
    /\ werr = << >>
    /\ nread = 0
    /\ retErr = NotReturned
    /\ transforms = << >>
    /\ commits = << >>
    /\ sent = << >>
    /\ saves = 0

\* no cache is in use
CacheIdle ==
    /\ fs = [n \in {youngPath, oldPath} |-> [exists |-> FALSE, recs |-> NoRecs]]
    /\ added = {}
    /\ phase = "new"
    /\ handles = [young |-> "nil", old |-> "nil"]
    /\ ret = [op |-> "none", p |-> Empty, c |-> Empty, value |-> Empty,
              found |-> FALSE, err |-> "nil", fault |-> "none", tier |-> "none",
              puts |-> 0, synced |-> FALSE, again |-> FALSE]
    /\ closeLog = << >>
    /\ closeInfo = NoClose

PipeNext ==
    \/ SpawnWorker
    \/ StartDispatcher
    \/ \E path \in Paths, w \in Workers : Dispatch(path, w)
    \/ CloseJobs
    \/ \E w \in Workers : Resolve(w)
    \/ \E w \in Workers : Signal(w)
    \/ \E w \in Workers : WorkerExit(w)
    \/ \E fails \in BOOLEAN : Save(fails)

PipeSpecInit == CacheIdle /\ PipeInit

PipeSpec == PipeSpecInit /\ [][PipeNext]_vars

(* The specifications *)

Init == CacheInit /\ PipeIdle

Next == CacheNext

Spec == Init /\ [][Next]_vars

----------------------------------------------------------------------------
(* Properties *)

KeyWritten(tag, x) ==
    \E h \in added : h[1] = tag /\ (IF tag = "p" THEN h[2] ELSE h[3]) = x

\* C1: after a successful Add(p, E), with no store failure in the lookup, the
\* next Encrypt(p) returns (E, found, no error) and the next Decrypt(E)
\* returns (p, found, no error).
C1_RoundTrip ==
    [][ (ret.op = "Add" /\ ret.err = "nil" /\ ret'.fault = "none") =>
          /\ (ret'.op = "Encrypt" /\ ret'.p = ret.p) =>
                (ret'.value = ret.c /\ ret'.found /\ ret'.err = "nil")
          /\ (ret'.op = "Decrypt" /\ ret'.c = ret.c) =>
                (ret'.value = ret.p /\ ret'.found /\ ret'.err = "nil") ]_vars

\* C2: when the orchestrator has returned, it has read exactly N result
\* signals (so that no worker is left sending and the dispatcher can finish).
C2_DrainAll == opc = "done" => nread = Cardinality(Paths)

\* C3: a Close without store failure whose measured size exceeds the
\* threshold returns no error, and after the next Setup old holds the records
\* young held before the Close and young is empty.
C3_Rotation ==
    [][ /\ ( /\ ret'.op = "Close"
             /\ closeInfo'.faults = {}
             /\ closeInfo'.size > youngCacheSize ) => ret'.err = "nil"
        /\ ( /\ ret.op = "Close"
             /\ closeInfo.faults = {}
             /\ closeInfo.size > youngCacheSize
             /\ ret'.op = "Setup" /\ ret'.err = "nil" ) =>
                (old' = closeInfo.young /\ young' = NoRecs) ]_vars

\* the store key of the ciphertext-keyed record of x, and of the
\* plaintext-keyed one
CKey(x) == <<99, [bytes |-> 16, sum256 |-> x]>>
PKey(x) == <<112, [bytes |-> 16, sum256 |-> x]>>

\* C4: a lookup (either direction, no store failure) of a key that young
\* lacks and old holds returns old's value with found, and young then holds
\* both records of the pair.
C4_Promotion ==
    [][ \A x \in Payloads :
          /\ ( /\ ret'.op = "Decrypt" /\ ret'.c = x /\ ret'.fault = "none"
               /\ ~Has(young, CKey(x))
               /\ Has(old, CKey(x)) ) =>
                LET v == old[CKey(x)] IN
                /\ ret'.found /\ ret'.value = v /\ ret'.err = "nil"
                /\ Has(young', CKey(x))
                /\ young'[CKey(x)] = v
                /\ Has(young', PKey(v))
                /\ young'[PKey(v)] = x
          /\ ( /\ ret'.op = "Encrypt" /\ ret'.p = x /\ ret'.fault = "none"
               /\ ~Has(young, PKey(x))
               /\ Has(old, PKey(x)) ) =>
                LET v == old[PKey(x)] IN
                /\ ret'.found /\ ret'.value = v /\ ret'.err = "nil"
                /\ Has(young', PKey(x))
                /\ young'[PKey(x)] = v
                /\ Has(young', CKey(v))
                /\ young'[CKey(v)] = x ]_vars

AllReuse == \A p \in Paths : jobList[p].existing /\ jobList[p].equal

\* C5: when every job has an existing output that Compare accepts, the
\* provider is never called, no path is committed twice, and when the
\* orchestrator has returned it returned no job error and every path has been
\* committed exactly once.
C5_ReuseShortCircuit ==
    AllReuse =>
        /\ \A p \in Paths : transforms[p] = 0 /\ commits[p] <= 1
        /\ opc = "done" => /\ retErr \notin Paths
                           /\ \A p \in Paths : commits[p] = 1

C5_Witness ==
    /\ AllReuse
    /\ Cardinality(Paths) >= 2
    /\ threads >= 1
    /\ opc = "done"
    /\ retErr = 0
    /\ \A p \in Paths : commits[p] = 1

TransformFailed(p) == jobList[p].fails /\ transforms[p] > 0

\* C6: when the orchestrator has returned, it returned a job error exactly
\* if some job's transform failed; that error is the error of a job whose
\* transform did fail, and then SaveFile was not called.
C6_BatchError ==
    opc = "done" =>
        /\ (retErr \in Paths) <=> (\E p \in Paths : TransformFailed(p))
        /\ retErr \in Paths => (TransformFailed(retErr) /\ saves = 0)
        /\ retErr \in Paths \cup {0, ErrSave}

C6_Witness ==
    /\ opc = "done"
    /\ retErr \in Paths
    /\ \E p \in Paths : p # retErr /\ commits[p] = 1
    /\ \E p \in Paths : p # retErr /\ TransformFailed(p)

\* C7 as stated: a lookup that returns found returns the value some earlier
\* Add wrote for that key; a lookup of a key never written returns a miss
\* without error and leaves the stores as they are.
C7_Original ==
    [][ \A x \in Payloads :
          /\ (ret'.op = "Decrypt" /\ ret'.c = x) =>
                /\ ret'.found => <<"c", ret'.value, x>> \in added
                /\ ~KeyWritten("c", x) =>
                      (~ret'.found /\ ret'.err = "nil" /\ fs' = fs)
          /\ (ret'.op = "Encrypt" /\ ret'.p = x) =>
                /\ ret'.found => <<"p", x, ret'.value>> \in added
                /\ ~KeyWritten("p", x) =>
                      (~ret'.found /\ ret'.err = "nil" /\ fs' = fs) ]_vars

\* C7 amended: a lookup returns found only for a key that some earlier Add
\* wrote, and when it also returns no error the value is the value of such an
\* Add; a lookup of a key never written returns a miss without error and
\* leaves the stores as they are.
C7_LookupSound ==
    [][ \A x \in Payloads :
          /\ (ret'.op = "Decrypt" /\ ret'.c = x) =>
                /\ ret'.found => KeyWritten("c", x)
                /\ (ret'.found /\ ret'.err = "nil") =>
                      <<"c", ret'.value, x>> \in added
                /\ ~KeyWritten("c", x) =>
                      (~ret'.found /\ ret'.err = "nil" /\ fs' = fs)
          /\ (ret'.op = "Encrypt" /\ ret'.p = x) =>
                /\ ret'.found => KeyWritten("p", x)
                /\ (ret'.found /\ ret'.err = "nil") =>
                      <<"p", x, ret'.value>> \in added
                /\ ~KeyWritten("p", x) =>
                      (~ret'.found /\ ret'.err = "nil" /\ fs' = fs) ]_vars

C7_Witness ==
    /\ ret.op = "Decrypt"
    /\ ret.found
    /\ ret.err = "nil"
    /\ ret.tier = "young"
    /\ old = NoRecs
    /\ \E p \in Payloads : p # ret.value /\ KeyWritten("p", p)

\* C8: Close returns the young-close error if that close failed, else the
\* old-close error, else the merge error, else the stats error, else the
\* rotation's error; it returns nil only if nothing failed.
C8_ClosePriority ==
    ret.op = "Close" =>
        LET F == closeInfo.faults IN
        /\ "closeYoung" \in F => ret.err = "ErrCloseYoung"
        /\ ("closeYoung" \notin F /\ "closeOld" \in F) => ret.err = "ErrCloseOld"
        /\ (F \cap {"closeYoung", "closeOld"} = {} /\ "merge" \in F) =>
              ret.err = "ErrMerge"
        /\ (F \cap {"closeYoung", "closeOld", "merge"} = {} /\ "stats" \in F) =>
              ret.err = "ErrStats"
        /\ F \cap {"closeYoung", "closeOld", "merge", "stats"} = {} =>
              ret.err = closeInfo.rotErr
        /\ ret.err = "nil" => (F = {} /\ closeInfo.rotErr = "nil")

C8_Witness ==
    /\ ret.op = "Close"
    /\ closeInfo.faults = {"merge", "stats", "closeYoung"}
    /\ ret.err = "ErrCloseYoung"
    /\ young # NoRecs

\* C9: every Close attempts to close young and then old, once each.
C9_ClosesBoth == ret.op = "Close" => closeLog = <<"young", "old">>

\* C10: after a Close without store failure whose measured size does not
\* exceed the threshold, both directories are still there with the records
\* they had, and the next Setup finds the same records in young and in old.
C10_BelowThreshold ==
    [][ /\ ( /\ ret'.op = "Close"
             /\ closeInfo'.faults = {}
             /\ closeInfo'.size <= youngCacheSize ) =>
                /\ fs' = fs
                /\ fs'[youngPath].exists /\ fs'[oldPath].exists
                /\ young' = closeInfo'.young
                /\ old' = closeInfo'.old
        /\ ( /\ ret.op = "Close"
             /\ closeInfo.faults = {}
             /\ closeInfo.size <= youngCacheSize
             /\ ret'.op = "Setup" /\ ret'.err = "nil" ) =>
                /\ young' = closeInfo.young
                /\ old' = closeInfo.old ]_vars

C10_Witness ==
    /\ ret.op = "Close"
    /\ ret.err = "nil"
    /\ closeInfo.faults = {}
    /\ closeInfo.size <= youngCacheSize
    /\ closeInfo.young # NoRecs
    /\ closeInfo.old # NoRecs
    /\ young = closeInfo.young
    /\ old = closeInfo.old

\* C11: no Add and no lookup changes the old store; old's records change
\* only in a Close that reached its rotation, and then old is left without
\* records or with the records young had.
C11_OldReadOnly ==
    [][ /\ ret'.op \in {"Add", "Encrypt", "Decrypt"} => fs'[oldPath] = fs[oldPath]
        /\ old' # old =>
              /\ ret'.op = "Close"
              /\ closeInfo'.rotated
              /\ old' \in {NoRecs, young} ]_vars

C11_Witness ==
    /\ ret.op = "Decrypt"
    /\ ret.tier = "old"
    /\ ret.found
    /\ ret.err = "nil"
    /\ old # NoRecs
    /\ Has(young, CKey(ret.c))

\* C12: when Add(p, c) returned no error, young holds the record
\* plaintextKey(p) -> c and the record ciphertextKey(c) -> p and the Sync
\* after the two Puts succeeded; when a Put or the Sync failed, Add returned
\* that error.
C12_AddCommitsBoth ==
    ret.op = "Add" =>
        /\ ret.err = "nil" =>
              /\ Has(young, PKey(ret.p)) /\ young[PKey(ret.p)] = ret.c
              /\ Has(young, CKey(ret.c)) /\ young[CKey(ret.c)] = ret.p
              /\ ret.puts = 2
              /\ ret.synced
        /\ ret.fault \in {"put1", "put2"} => ret.err = "ErrPut"
        /\ ret.fault = "sync" => ret.err = "ErrSync"

C12_Witness ==
    /\ ret.op = "Add"
    /\ ret.err = "nil"
    /\ ret.p # ret.c
    /\ Has(young, PKey(ret.p)) /\ Has(young, CKey(ret.c))
    /\ Cardinality(DOMAIN young) = 4

\* C13: a successful Add(p, E) that follows a successful Add(p, E) leaves
\* both stores (hence every lookup's result) as they were.
C13_IdempotentAdd ==
    [][ ( /\ ret.op = "Add" /\ ret.err = "nil"
          /\ ret'.op = "Add" /\ ret'.err = "nil"
          /\ ret'.p = ret.p /\ ret'.c = ret.c ) => fs' = fs ]_vars

C13_Witness ==
    /\ ret.op = "Add"
    /\ ret.err = "nil"
    /\ ret.again
    /\ Has(young, PKey(ret.p)) /\ young[PKey(ret.p)] = ret.c
    /\ Has(young, CKey(ret.c)) /\ young[CKey(ret.c)] = ret.p

NoJobFails == \A p \in Paths : ~jobList[p].fails

\* a run in which the provider returns no error for any job
PipeFairInit == PipeSpecInit /\ NoJobFails

\* the pipeline under fair scheduling: a goroutine that can take a step is
\* not held back forever
PipeFairSpec == PipeFairInit /\ [][PipeNext]_vars /\ WF_vars(PipeNext)

\* a job's own resolution succeeds: reuse, or a transform that returns no error
OwnSuccess(p) == (jobList[p].existing /\ jobList[p].equal) \/ ~jobList[p].fails

\* C14: when a worker is about to send the signal of the job it holds, the
\* job has been committed exactly if its own resolution succeeded, and the
\* signal is nil exactly in that case, whatever the worker handled before.
C14_OwnOutcome ==
    \A w \in 1..started :
        wpc[w] = "send" =>
            /\ (commits[wjob[w]] = 1) <=> OwnSuccess(wjob[w])
            /\ (werr[w] = 0) <=> OwnSuccess(wjob[w])

Held == { p \in Paths : \E w \in 1..started : wjob[w] = p }

\* C15: a path is held by at most one worker and is never handed over again
\* once it has left the dispatcher; a path has at most one transform, one
\* commit and one signal, and none before it is handed over; when no job
\* fails and the orchestrator has returned, every path has been resolved,
\* committed and signalled exactly once.
C15_ExactlyOnce ==
    /\ \A p \in Paths :
          /\ Cardinality({ w \in 1..started : wjob[w] = p }) <= 1
          /\ transforms[p] <= 1 /\ commits[p] <= 1 /\ Len(sent[p]) <= 1
          /\ p \in remaining =>
                /\ p \notin Held
                /\ transforms[p] = 0 /\ commits[p] = 0 /\ Len(sent[p]) = 0
          /\ Len(sent[p]) = 1 => p \notin Held \cup remaining
          /\ (transforms[p] = 1 \/ commits[p] = 1) => p \notin remaining
    /\ (NoJobFails /\ threads >= 1 /\ opc = "done") =>
          \A p \in Paths :
              /\ p \notin remaining \cup Held
              /\ commits[p] = 1
              /\ sent[p] = <<0>>
              /\ transforms[p] = IF jobList[p].existing /\ jobList[p].equal THEN 0 ELSE 1

C15_Witness ==
    /\ NoJobFails
    /\ threads >= 2
    /\ Cardinality(Paths) >= 2
    /\ opc = "done"
    /\ \A p \in Paths : commits[p] = 1 /\ sent[p] = <<0>>
    /\ \E p \in Paths : transforms[p] = 1

\* C17: SaveFile is called at most once, and when it has been called all N
\* signals had been read, none of them an error, every job is committed and
\* no worker is resolving or committing a job.
C17_CommitBeforeSave ==
    /\ saves <= 1
    /\ saves = 1 =>
          /\ nread = Cardinality(Paths)
          /\ \A p \in Paths : sent[p] = <<0>> /\ commits[p] = 1
          /\ \A w \in 1..started : wpc[w] \notin {"work", "send"}

C17_Witness ==
    /\ saves = 1
    /\ Cardinality(Paths) >= 2
    /\ threads >= 2
    /\ \A p \in Paths : commits[p] = 1

InFlight == { p \in Paths : p \notin remaining /\ Len(sent[p]) = 0 }

\* C18: the dispatcher runs only when all W workers have been started, no
\* more than W workers ever exist, and at most W jobs are received and not
\* yet signalled.
C18_BoundedParallel ==
    /\ started <= threads
    /\ dpc # "none" => started = threads
    /\ remaining # Paths => started = threads
    /\ Cardinality(InFlight) <= threads
    /\ Cardinality({ w \in 1..started : wpc[w] = "work" }) <= threads

C18_Witness ==
    /\ threads = 2
    /\ Cardinality(InFlight) = 2
    /\ \A w \in 1..started : wpc[w] = "work"
    /\ remaining # {}

\* nothing is left blocked: the dispatcher has sent every job and closed the
\* channel, the orchestrator has read N nil signals and returned, and every
\* worker has left its receive loop
Terminated ==
    /\ dpc = "exit" /\ remaining = {} /\ jobsClosed
    /\ opc = "done" /\ nread = Cardinality(Paths)
    /\ \A p \in Paths : sent[p] = <<0>>
    /\ started = threads
    /\ \A w \in Workers : wpc[w] = "exit"

\* C16: with at least one worker and no failing transform, under fair
\* scheduling the run ends with nothing left blocked; with no worker and at
\* least one job the orchestrator never returns.
C16_Terminates ==
    /\ (threads >= 1 /\ NoJobFails) => <>[]Terminated
    /\ (threads = 0 /\ Cardinality(Paths) >= 1) => [](opc # "done")

C16_Witness ==
    /\ Terminated
    /\ threads >= 2
    /\ Cardinality(Paths) >= 2
    /\ \E p \in Paths : transforms[p] = 1

\* C19: a lookup without store failure of a key young holds returns young's
\* value for it, whatever old holds; a lookup answers from old only when
\* young lacks the key; and a lookup that follows a successful Add of the
\* same key returns what that Add wrote, in both directions.
C19_YoungPrecedence ==
    [][ \A x \in Payloads :
          /\ (ret'.op = "Decrypt" /\ ret'.c = x /\ ret'.fault = "none") =>
                /\ Has(young, CKey(x)) =>
                      /\ ret'.found /\ ret'.err = "nil"
                      /\ ret'.value = young[CKey(x)]
                /\ ret'.tier = "old" => ~Has(young, CKey(x))
                /\ (ret.op = "Add" /\ ret.err = "nil" /\ ret.c = x) =>
                      ret'.found /\ ret'.value = ret.p
          /\ (ret'.op = "Encrypt" /\ ret'.p = x /\ ret'.fault = "none") =>
                /\ Has(young, PKey(x)) =>
                      /\ ret'.found /\ ret'.err = "nil"
                      /\ ret'.value = young[PKey(x)]
                /\ ret'.tier = "old" => ~Has(young, PKey(x))
                /\ (ret.op = "Add" /\ ret.err = "nil" /\ ret.p = x) =>
                      ret'.found /\ ret'.value = ret.c ]_vars

\* C20: the threshold is 100 MiB, and a Close without store failure rotates
\* exactly when young's reported size is greater than 100 MiB.
C20_Threshold ==
    /\ youngCacheSize = 100 * 1024 * 1024
    /\ (ret.op = "Close" /\ closeInfo.seen /\ closeInfo.faults = {}) =>
          (closeInfo.rotated <=> closeInfo.size > 100 * 1024 * 1024)

====
